---- MODULE Spec2Model ----
(***************************************************************************)
(* LS-8 emulator, src/ls8/cpu.js: the CPU class as a state machine.        *)
(*                                                                         *)
(* Values.  The registers are JavaScript numbers (or undefined), not       *)
(* bytes: the code masks some results with & 255 and stores others raw.    *)
(* A value is a pair <<n, d>>:                                             *)
(*    d >= 1        the finite number n/d in lowest terms (d = 1: integer) *)
(*    <<0, -1>>     negative zero                                          *)
(*    <<0, 0>>      NaN,   <<1, 0>> +Infinity,   <<-1, 0>> -Infinity       *)
(*    <<0, -2>>     undefined                                              *)
(* Quotients are kept exact (IEEE rounding of a non-terminating quotient   *)
(* is not modelled) and every magnitude stays below 2^31, so ToInt32 is    *)
(* truncation toward zero.                                                 *)
(***************************************************************************)
EXTENDS Integers, Sequences, FiniteSets, TLC

\* ------------------------------------------------------------------ bounds
MaxTicks == 8
MaxRaises == 1
MaxPeripherals == 1

\* ------------------------------------------------------- opcode constants
ADD == 160
AND == 168
CALL == 80
CMP == 167
DEC == 102
DIV == 163
HLT == 1
INC == 101
INT == 82
IRET == 19
JEQ == 85
JGE == 90
JGT == 87
JLE == 89
JLT == 88
JMP == 84
JNE == 86
LD == 131
LDI == 130
MOD == 164
MUL == 162
NOP == 0
NOT == 105
OR == 170
POP == 70
PRA == 72
PRN == 71
PUSH == 69
RET == 17
SHL == 172
SHR == 173
ST == 132
SUB == 161
XOR == 171

IM == 5
IS == 6
SP == 7

FLAG_EQ == 0
FLAG_GT == 1
FLAG_LT == 2

\* intMask[n] = 0x1 << n
intMask(n) == 2 ^ n

\* ------------------------------------------------------------------ values
Num(n) == <<n, 1>>
NegZero == <<0, -1>>
NaN == <<0, 0>>
PosInf == <<1, 0>>
NegInf == <<-1, 0>>
Undefined == <<0, -2>>

IsFinite(v) == v[2] >= 1 \/ v = NegZero
IsZero(v) == v = Num(0) \/ v = NegZero
IsInt(v) == v[2] = 1 \/ v = NegZero
IsByte(v) == v[2] = 1 /\ v[1] \in 0..255
\* the sign of a number that is not NaN or undefined: -1 or 1 (of -0: -1)
Sign(v) == IF v = NegZero \/ v[1] < 0 THEN -1 ELSE 1

Abs(n) == IF n < 0 THEN -n ELSE n

RECURSIVE Gcd(_, _)
Gcd(a, b) == IF b = 0 THEN a ELSE Gcd(b, a % b)

\* the finite number n/d (d # 0) in lowest terms; a zero of sign sgn
Rat(n, d, sgn) ==
  IF n = 0 THEN (IF sgn < 0 THEN NegZero ELSE Num(0))
  ELSE LET g == Gcd(Abs(n), Abs(d))
           s == IF d < 0 THEN -1 ELSE 1
       IN <<(s * n) \div g, (s * d) \div g>>

\* numerator and denominator of a finite value (-0 counts as 0/1)
Nm(v) == IF v = NegZero THEN 0 ELSE v[1]
Dn(v) == IF v = NegZero THEN 1 ELSE v[2]

\* truncation toward zero of n/d, d >= 1
TruncDiv(n, d) == IF n >= 0 THEN n \div d ELSE -((-n) \div d)

\* ToInt32: NaN, the infinities and undefined give 0
ToInt32(v) == IF IsFinite(v) THEN TruncDiv(Nm(v), Dn(v)) ELSE 0

\* x & 0xff of an int32
Low8(x) == x % 256

\* bitwise operators of int32 operands (two's complement)
RECURSIVE BitAnd(_, _)
BitAnd(x, y) ==
  IF x = 0 \/ y = 0 THEN 0
  ELSE IF x = -1 THEN y
  ELSE IF y = -1 THEN x
  ELSE (x % 2) * (y % 2) + 2 * BitAnd(x \div 2, y \div 2)

BitNot(x) == -1 - x

RECURSIVE BitOr(_, _)
BitOr(x, y) ==
  IF x = 0 THEN y
  ELSE IF y = 0 THEN x
  ELSE IF x = -1 \/ y = -1 THEN -1
  ELSE (IF x % 2 = 1 \/ y % 2 = 1 THEN 1 ELSE 0) + 2 * BitOr(x \div 2, y \div 2)

RECURSIVE BitXor(_, _)
BitXor(x, y) ==
  IF x = 0 THEN y
  ELSE IF y = 0 THEN x
  ELSE IF x = -1 THEN BitNot(y)
  ELSE IF y = -1 THEN BitNot(x)
  ELSE ((x + y) % 2) + 2 * BitXor(x \div 2, y \div 2)

\* bit i (0..30) of an int32
Bit(x, i) == (x \div (2 ^ i)) % 2

\* (x << (s & 31)) & 0xff and (x >>> (s & 31)) & 0xff of int32 x, s
ShlLow8(x, s) ==
  LET k == s % 32 IN IF k >= 8 THEN 0 ELSE ((x % 256) * (2 ^ k)) % 256
ShrLow8(x, s) ==
  LET k == s % 32
  IN IF k = 31 THEN (IF x < 0 THEN 1 ELSE 0)
     ELSE IF x >= 0 \/ k <= 24 THEN (x \div (2 ^ k)) % 256
     ELSE ((x \div (2 ^ k)) + 2 ^ (32 - k)) % 256

\* a + b, a - b, a * b of finite values
RatAdd(a, b) == Rat(Nm(a) * Dn(b) + Nm(b) * Dn(a), Dn(a) * Dn(b), 1)
RatSub(a, b) == Rat(Nm(a) * Dn(b) - Nm(b) * Dn(a), Dn(a) * Dn(b), 1)
RatMul(a, b) == Rat(Nm(a) * Nm(b), Dn(a) * Dn(b), 1)
\* a < b, a = b of finite values (-0 equals 0)
RatLess(a, b) == Nm(a) * Dn(b) < Nm(b) * Dn(a)
RatEq(a, b) == Nm(a) = Nm(b) /\ Dn(a) = Dn(b)

\* (a + b) & 255 and the like: a non-finite sum is NaN or an infinity, 0 as int32
MaskAdd(a, b) ==
  Num(IF IsFinite(a) /\ IsFinite(b) THEN Low8(ToInt32(RatAdd(a, b))) ELSE 0)
MaskSub(a, b) ==
  Num(IF IsFinite(a) /\ IsFinite(b) THEN Low8(ToInt32(RatSub(a, b))) ELSE 0)
MaskMul(a, b) ==
  Num(IF IsFinite(a) /\ IsFinite(b) THEN Low8(ToInt32(RatMul(a, b))) ELSE 0)

\* a / b as JavaScript computes it
JsDiv(a, b) ==
  IF a = Undefined \/ b = Undefined \/ a = NaN \/ b = NaN THEN NaN
  ELSE IF ~IsFinite(a)
    THEN (IF ~IsFinite(b) THEN NaN
          ELSE IF Sign(a) * Sign(b) < 0 THEN NegInf ELSE PosInf)
  ELSE IF ~IsFinite(b) THEN Rat(0, 1, Sign(a) * Sign(b))
  ELSE IF IsZero(b)
    THEN (IF IsZero(a) THEN NaN
          ELSE IF Sign(a) * Sign(b) < 0 THEN NegInf ELSE PosInf)
  ELSE Rat(Nm(a) * Dn(b), Dn(a) * Nm(b), Sign(a) * Sign(b))

\* a % b as JavaScript computes it: the remainder has the sign of the dividend
JsMod(a, b) ==
  IF a = Undefined \/ b = Undefined \/ a = NaN \/ b = NaN THEN NaN
  ELSE IF ~IsFinite(a) \/ IsZero(b) THEN NaN
  ELSE IF ~IsFinite(b) THEN a
  ELSE LET n == Nm(a) * Dn(b)
           m == Abs(Nm(b) * Dn(a))
           q == TruncDiv(n, m)
       IN Rat(n - q * m, Dn(a) * Dn(b), Sign(a))

\* a === b, a > b, a < b
JsEq(a, b) ==
  IF a = Undefined \/ b = Undefined THEN a = b
  ELSE IF a = NaN \/ b = NaN THEN FALSE
  ELSE IF IsFinite(a) /\ IsFinite(b) THEN RatEq(a, b)
  ELSE a = b
JsLess(a, b) ==
  IF a = Undefined \/ b = Undefined \/ a = NaN \/ b = NaN THEN FALSE
  ELSE IF IsFinite(a) /\ IsFinite(b) THEN RatLess(a, b)
  ELSE IF a = b THEN FALSE
  ELSE a = NegInf \/ b = PosInf
JsGreater(a, b) == JsLess(b, a)

\* -------------------------------------------------------------- the memory
\* The memory collaborator (not part of cpu.js): 256 cells, each a byte.
\* write(address, value) keeps the value as a byte; an address that is no
\* index 0..255 of the array (negative, fractional, undefined) names no cell:
\* a write there changes no cell and a read there gives undefined.
IsIndex(a) == (a[2] = 1 /\ a[1] \in 0..255) \/ a = NegZero
ToUint8(v) == Low8(ToInt32(v))
ramRead(ram, a) == IF IsIndex(a) THEN Num(ram[Nm(a)]) ELSE Undefined
ramWrite(ram, a, v) == IF IsIndex(a) THEN [ram EXCEPT ![Nm(a)] = ToUint8(v)] ELSE ram

\* ------------------------------------------------------------------ the CPU
\* F of the value of x: a statement's result, computed once, for the
\* statements after it
With(x, F(_)) == CHOOSE r \in {F(v) : v \in {x}} : TRUE

\* A CPU state s is a record of the fields of the object:
\*   reg               this.reg[0..], slots 8..255 being array slots a program
\*                     can create with an operand byte above 7 (undefined
\*                     until written)
\*   PC, IR, FL        this.reg.PC, this.reg.IR, this.reg.FL
\*   interruptsEnabled this.interruptsEnabled
\*   ram               the cells of this.ram
\*   clock, timerInterrupt   the two interval handles: "none" before
\*                     startClock, "set" while scheduled, "cleared" after
\*                     clearInterval
\*   peripherals       this.peripherals, each TRUE until its stop() is called
\*   crashed           an exception left tick() uncaught
\*   log               the calls stopClock() has made, in the order made

\* this.reg[r] and this.reg[r] = v: reg holds the slots that exist, 0..7 and
\* those a program wrote through an operand byte above 7; a slot that does
\* not exist reads as undefined and comes to exist when written
getReg(s, r) == IF r \in DOMAIN s.reg THEN s.reg[r] ELSE Undefined
setReg(s, r, v) ==
  [s EXCEPT !.reg = [k \in DOMAIN @ \cup {r} |-> IF k = r THEN v ELSE @[k]]]

\* stopClock with the peripherals stopped before the intervals are cleared
stopClockPeripheralsFirst(s) ==
  With([s EXCEPT !.peripherals = [k \in DOMAIN @ |-> FALSE],
                 !.log = @ \o [k \in DOMAIN s.peripherals |-> "stop"]],
       LAMBDA s1 :
  With([s1 EXCEPT !.clock = IF @ = "set" THEN "cleared" ELSE @,
                  !.log = Append(@, "clearInterval(clock)")],
       LAMBDA s2 :
    [s2 EXCEPT !.timerInterrupt = IF @ = "set" THEN "cleared" ELSE @,
               !.log = Append(@, "clearInterval(timerInterrupt)")]))

\* stopClock(): clearInterval both handles, then stop() every peripheral
stopClock(s) ==
  With([s EXCEPT !.clock = IF @ = "set" THEN "cleared" ELSE @,
                 !.log = Append(@, "clearInterval(clock)")],
       LAMBDA s1 :
  With([s1 EXCEPT !.timerInterrupt = IF @ = "set" THEN "cleared" ELSE @,
                  !.log = Append(@, "clearInterval(timerInterrupt)")],
       LAMBDA s2 :
    [s2 EXCEPT !.peripherals = [k \in DOMAIN @ |-> FALSE],
               !.log = @ \o [k \in DOMAIN s2.peripherals |-> "stop"]]))

stop(s) == stopClock(s)

\* setFlag(f, v), getFlag(f)
setFlag(s, f, v) ==
  [s EXCEPT !.FL = IF v THEN Num(BitOr(ToInt32(@), 2 ^ f))
                        ELSE Num(BitAnd(ToInt32(@), BitNot(2 ^ f)))]
getFlag(s, f) == Bit(BitAnd(ToInt32(s.FL), 2 ^ f), f)

\* DIV and MOD stop the engine on a zero divisor and then go on to the division
aluDIV(s, regA, valA, valB) ==
  LET s1 == IF valB = Num(0) \/ valB = NegZero THEN stop(s) ELSE s
  IN setReg(s1, regA, JsDiv(valA, valB))
aluMOD(s, regA, valA, valB) ==
  LET s1 == IF valB = Num(0) \/ valB = NegZero THEN stop(s) ELSE s
  IN setReg(s1, regA, JsMod(valA, valB))
aluNOT(s, regA, valA) == setReg(s, regA, Num(BitNot(ToInt32(valA))))
aluCMP(s, valA, valB) ==
  LET s1 == setFlag(s, FLAG_EQ, JsEq(valA, valB))
      s2 == setFlag(s1, FLAG_GT, JsGreater(valA, valB))
  IN setFlag(s2, FLAG_LT, JsLess(valA, valB))

\* alu(op, regA, regB) with regA, regB register indices (no immediate)
alu(s, op, regA, regB) ==
  LET valA == getReg(s, regA)
      valB == getReg(s, regB)
  IN CASE op = "AND" -> setReg(s, regA, Num(BitAnd(ToInt32(valA), ToInt32(valB))))
       [] op = "OR" -> setReg(s, regA, Num(BitOr(ToInt32(valA), ToInt32(valB))))
       [] op = "NOT" -> aluNOT(s, regA, valA)
       [] op = "XOR" -> setReg(s, regA, Num(BitXor(ToInt32(valA), ToInt32(valB))))
       [] op = "MUL" -> setReg(s, regA, MaskMul(valA, valB))
       [] op = "ADD" -> setReg(s, regA, MaskAdd(valA, valB))
       [] op = "SUB" -> setReg(s, regA, MaskSub(valA, valB))
       [] op = "DIV" -> aluDIV(s, regA, valA, valB)
       [] op = "MOD" -> aluMOD(s, regA, valA, valB)
       [] op = "INC" -> setReg(s, regA, MaskAdd(valA, Num(1)))
       [] op = "DEC" -> setReg(s, regA, MaskSub(valA, Num(1)))
       [] op = "CMP" -> aluCMP(s, valA, valB)
       [] op = "SHL" -> setReg(s, regA, Num(ShlLow8(ToInt32(valA), ToInt32(valB))))
       [] op = "SHR" -> setReg(s, regA, Num(ShrLow8(ToInt32(valA), ToInt32(valB))))

\* alu('ADD', 'PC', null, immediate)
aluAddPC(s, immediate) == [s EXCEPT !.PC = MaskAdd(@, Num(immediate))]

\* _push(val), _pop(): the popped value is read before SP moves
_push(s, val) ==
  With(alu(s, "DEC", SP, SP), LAMBDA s1 :
    [s1 EXCEPT !.ram = ramWrite(@, getReg(s1, SP), val)])
popVal(s) == ramRead(s.ram, getReg(s, SP))
popState(s) == alu(s, "INC", SP, SP)

\* ------------------------------------------------------ instruction handlers
hCALL(s, r) ==
  With(_push(s, RatAdd(s.PC, Num(2))), LAMBDA s1 :
    [s1 EXCEPT !.PC = getReg(s1, r)])
hHLT(s) == stop(s)
\* hINT ORing the register into IS: the lines are raised, not unmasked
hINTRaises(s, r) ==
  setReg(s, IS, Num(BitOr(ToInt32(getReg(s, IS)), ToInt32(getReg(s, r)))))
hINT(s, r) ==
  setReg(s, IM, Num(BitOr(ToInt32(getReg(s, IM)), ToInt32(getReg(s, r)))))

RECURSIVE popRegs(_, _)
popRegs(s, r) ==
  IF r < 0 THEN s
  ELSE With(setReg(popState(s), r, popVal(s)), LAMBDA s1 : popRegs(s1, r - 1))

\* hIRET popping the registers in the order they were pushed, 0 up to 6
RECURSIVE popRegsUp(_, _)
popRegsUp(s, r) ==
  IF r > 6 THEN s
  ELSE With(setReg(popState(s), r, popVal(s)), LAMBDA s1 : popRegsUp(s1, r + 1))
hIRETWrongOrder(s) ==
  With(popRegsUp(s, 0), LAMBDA s1 :
  With([popState(s1) EXCEPT !.FL = popVal(s1)], LAMBDA s2 :
  With([popState(s2) EXCEPT !.PC = popVal(s2)], LAMBDA s3 :
    [s3 EXCEPT !.interruptsEnabled = TRUE])))

hIRET(s) ==
  With(popRegs(s, 6), LAMBDA s1 :
  With([popState(s1) EXCEPT !.FL = popVal(s1)], LAMBDA s2 :
  With([popState(s2) EXCEPT !.PC = popVal(s2)], LAMBDA s3 :
    [s3 EXCEPT !.interruptsEnabled = TRUE])))

\* the shape shared by the conditional jumps: to reg[r] if taken, else PC + 2
jump(s, taken, r) == IF taken THEN [s EXCEPT !.PC = getReg(s, r)] ELSE aluAddPC(s, 2)
hJEQ(s, r) == jump(s, getFlag(s, FLAG_EQ) = 1, r)
\* hJGE testing LT where the code tests GT
hJGEWrongFlag(s, r) == jump(s, getFlag(s, FLAG_EQ) = 1 \/ getFlag(s, FLAG_LT) = 1, r)
hJGE(s, r) == jump(s, getFlag(s, FLAG_EQ) = 1 \/ getFlag(s, FLAG_GT) = 1, r)
hJGT(s, r) == jump(s, getFlag(s, FLAG_GT) = 1, r)
hJLT(s, r) == jump(s, getFlag(s, FLAG_LT) = 1, r)
hJLE(s, r) == jump(s, getFlag(s, FLAG_EQ) = 1 \/ getFlag(s, FLAG_LT) = 1, r)
hJMP(s, r) == [s EXCEPT !.PC = getReg(s, r)]
hJNE(s, r) == jump(s, getFlag(s, FLAG_EQ) # 1, r)

hLD(s, regA, regB) == setReg(s, regA, ramRead(s.ram, getReg(s, regB)))
hLDI(s, r, val) == setReg(s, r, Num(val))
hPOP(s, r) == setReg(popState(s), r, popVal(s))
hPUSH(s, r) == _push(s, getReg(s, r))
hRET(s) == [popState(s) EXCEPT !.PC = popVal(s)]
hST(s, regA, regB) == [s EXCEPT !.ram = ramWrite(@, getReg(s, regA), getReg(s, regB))]

\* setupBranchTable(): the opcodes that have a handler
branchTable ==
  {ADD, AND, CALL, CMP, DEC, DIV, HLT, INC, INT, IRET, JEQ, JGE, JGT, JLE,
   JLT, JMP, JNE, LD, LDI, MOD, MUL, NOP, NOT, OR, POP, PRA, PRN, PUSH, RET,
   SHL, SHR, ST, SUB, XOR}

\* handler(operandA, operandB) of opcode ir.  PRA and PRN write to the output
\* channel and NOP does nothing: none changes the CPU.
handler(s, ir, a, b) ==
  CASE ir = ADD -> alu(s, "ADD", a, b)
    [] ir = AND -> alu(s, "AND", a, b)
    [] ir = CALL -> hCALL(s, a)
    [] ir = CMP -> alu(s, "CMP", a, b)
    [] ir = DEC -> alu(s, "DEC", a, a)
    [] ir = DIV -> alu(s, "DIV", a, b)
    [] ir = HLT -> hHLT(s)
    [] ir = INC -> alu(s, "INC", a, a)
    [] ir = INT -> hINT(s, a)
    [] ir = IRET -> hIRET(s)
    [] ir = JEQ -> hJEQ(s, a)
    [] ir = JGE -> hJGE(s, a)
    [] ir = JGT -> hJGT(s, a)
    [] ir = JLE -> hJLE(s, a)
    [] ir = JLT -> hJLT(s, a)
    [] ir = JMP -> hJMP(s, a)
    [] ir = JNE -> hJNE(s, a)
    [] ir = LD -> hLD(s, a, b)
    [] ir = LDI -> hLDI(s, a, b)
    [] ir = MOD -> alu(s, "MOD", a, b)
    [] ir = MUL -> alu(s, "MUL", a, b)
    [] ir = NOP -> s
    [] ir = NOT -> alu(s, "NOT", a, a)
    [] ir = OR -> alu(s, "OR", a, b)
    [] ir = POP -> hPOP(s, a)
    [] ir = PRA -> s
    [] ir = PRN -> s
    [] ir = PUSH -> hPUSH(s, a)
    [] ir = RET -> hRET(s)
    [] ir = SHL -> alu(s, "SHL", a, b)
    [] ir = SHR -> alu(s, "SHR", a, b)
    [] ir = ST -> hST(s, a, b)
    [] ir = SUB -> alu(s, "SUB", a, b)
    [] ir = XOR -> alu(s, "XOR", a, b)

\* --------------------------------------------------------------------- tick
\* the line the interrupt check of tick() services: the lowest i in 0..7 with
\* ((IS & IM) >> i) & 1 = 1 when interrupts are enabled, else -1
interruptLineAlways(s) ==
  LET maskedInterrupts == BitAnd(ToInt32(getReg(s, IS)), ToInt32(getReg(s, IM)))
      active == {i \in 0..7 : Bit(maskedInterrupts, i) = 1}
  IN IF active # {}
       THEN CHOOSE i \in active : \A j \in active : i <= j
       ELSE -1
interruptLine(s) ==
  LET maskedInterrupts == BitAnd(ToInt32(getReg(s, IS)), ToInt32(getReg(s, IM)))
      active == {i \in 0..7 : Bit(maskedInterrupts, i) = 1}
  IN IF s.interruptsEnabled /\ active # {}
       THEN CHOOSE i \in active : \A j \in active : i <= j
       ELSE -1

RECURSIVE pushRegs(_, _)
pushRegs(s, r) ==
  IF r > 6 THEN s
  ELSE With(_push(s, getReg(s, r)), LAMBDA s1 : pushRegs(s1, r + 1))

\* interruptEntry reading the vector before it pushes the context
interruptEntryVectorFirst(s, i) ==
  With([s EXCEPT !.interruptsEnabled = FALSE], LAMBDA s0 :
  With(setReg(s0, IS, Num(BitAnd(ToInt32(getReg(s0, IS)), BitNot(intMask(i))))),
       LAMBDA s1 :
  With(_push(s1, s1.PC), LAMBDA s2 :
  With(_push(s2, s2.FL), LAMBDA s3 :
  With(pushRegs(s3, 0), LAMBDA s4 :
    [s4 EXCEPT !.PC = ramRead(s.ram, Num(248 + i))])))))

\* the body of the interrupt check for line i
interruptEntry(s, i) ==
  With([s EXCEPT !.interruptsEnabled = FALSE], LAMBDA s0 :
  With(setReg(s0, IS, Num(BitAnd(ToInt32(getReg(s0, IS)), BitNot(intMask(i))))),
       LAMBDA s1 :
  With(_push(s1, s1.PC), LAMBDA s2 :
  With(_push(s2, s2.FL), LAMBDA s3 :
  With(pushRegs(s3, 0), LAMBDA s4 :
    [s4 EXCEPT !.PC = ramRead(s4.ram, Num(248 + i))])))))

tickInterrupt(s) ==
  With(interruptLine(s), LAMBDA i : IF i = -1 THEN s ELSE interruptEntry(s, i))

\* whether the loop advances PC itself: bit 4 of IR clear
pcAdvance(ir) == Bit(ir, 4) = 0
operandCount(ir) == (ir \div 64) % 4

\* the handler's call: the state as the handler leaves it
tickHandler(s) ==
  LET operandA == ramRead(s.ram, MaskAdd(s.PC, Num(1)))
      operandB == ramRead(s.ram, MaskAdd(s.PC, Num(2)))
  IN handler(s, Nm(s.IR), Nm(operandA), Nm(operandB))

\* tickAdvance without its test of bit 4: the loop advances PC whatever IR is
tickAdvanceAlways(s) == aluAddPC(s, operandCount(Nm(s.IR)) + 1)

\* the advance of PC after the handler returned
tickAdvance(s) ==
  IF pcAdvance(Nm(s.IR)) THEN aluAddPC(s, operandCount(Nm(s.IR)) + 1) ELSE s

\* whether the branch table has a handler for the byte fetched into IR
hasHandler(ir) == ir # Undefined /\ Nm(ir) \in branchTable

\* tickSteps without the return after stop(): PC is advanced past a byte that
\* has no handler
tickStepsNoReturn(s) ==
  With(tickInterrupt(s), LAMBDA mid :
  With([mid EXCEPT !.IR = ramRead(mid.ram, mid.PC)], LAMBDA fetched :
  With(hasHandler(fetched.IR), LAMBDA ran :
  With(IF ran THEN tickHandler(fetched) ELSE fetched, LAMBDA hnd :
    [line |-> interruptLine(s), mid |-> mid, ran |-> ran, hnd |-> hnd,
     post |-> IF fetched.IR = Undefined THEN [fetched EXCEPT !.crashed = TRUE]
              ELSE IF ~ran THEN tickAdvance(stop(fetched))
              ELSE tickAdvance(hnd)]))))

\* tick() from the CPU s, with the states it passes through: mid after the
\* interrupt check (line: the line serviced, -1 for none), hnd as the handler
\* left it (ran: a handler was found and called), post at the return.  An IR
\* that is undefined (PC names no cell) makes IR.toString(2) throw before
\* stop() is reached; an IR without handler stops the engine and returns.
tickSteps(s) ==
  With(tickInterrupt(s), LAMBDA mid :
  With([mid EXCEPT !.IR = ramRead(mid.ram, mid.PC)], LAMBDA fetched :
  With(hasHandler(fetched.IR), LAMBDA ran :
  With(IF ran THEN tickHandler(fetched) ELSE fetched, LAMBDA hnd :
    [line |-> interruptLine(s), mid |-> mid, ran |-> ran, hnd |-> hnd,
     post |-> IF fetched.IR = Undefined THEN [fetched EXCEPT !.crashed = TRUE]
              ELSE IF ~ran THEN stop(fetched)
              ELSE tickAdvance(hnd)]))))

tick(s) == tickSteps(s).post

\* ----------------------------------------------------------- program images
\* Memory as the loader leaves it: zero except for the bytes placed (an
\* address past 255 wraps).  A program starts at address 0; a NOP there lets
\* an instruction at 254 or 255 take the byte at 0 as the operand R0.
Blank == [a \in 0..255 |-> 0]
Place(mem, at, bytes) ==
  [a \in 0..255 |->
     IF (a - at) % 256 < Len(bytes) THEN bytes[((a - at) % 256) + 1] ELSE mem[a]]

\* the interrupt lines raiseInterrupt is called with: the timer's, the
\* keyboard's and the highest
Lines == {0, 1, 7}

Opcodes == branchTable \cup {255}
\* addresses an instruction under test is put at, besides 32 in mid-memory:
\* the three from which the instruction or the advance past it wraps
Wraps == {253, 254, 255}

\* instructions that leave an operand register holding no byte
\* (register 200 was never written: dividing by it leaves NaN)
Spoil == {<<NOT, 0>>, <<NOT, 1>>, <<DIV, 0, 1>>, <<DIV, 0, 200>>}

\* NOP; LDI Ra,x; LDI Rb,y; pre; LDI R2,p; JMP R2;  at p: op a b; HLT
OpImage(op, ab, xy, pre, p) ==
  Place(Place(Blank, 0,
              <<NOP, LDI, ab[1], xy[1], LDI, ab[2], xy[2]>> \o pre \o <<LDI, 2, p, JMP, 2>>),
        p, <<op, ab[1], ab[2], HLT>>)

\* NOP; NOP; LDI R0,x; LDI R2,p; JMP R2;  at p: op 0 0, running over the end
\* of memory onto the two NOPs
WrapImage(op, x, p) ==
  Place(Place(Blank, 0, <<NOP, NOP, LDI, 0, x, LDI, 2, p, JMP, 2>>), p, <<op, 0, 0>>)

OpImages ==
  {OpImage(op, <<0, 1>>, xy, <<>>, 32) :
     op \in Opcodes, xy \in {<<250, 10>>, <<7, 2>>, <<5, 0>>}}
  \cup {OpImage(CMP, <<0, 1>>, xy, <<>>, 32) : xy \in {<<5, 5>>, <<3, 7>>}}
  \cup {OpImage(INT, <<0, IM>>, <<5, 130>>, <<>>, 32)}
  \cup {WrapImage(op, x, p) : op \in Opcodes, x \in {250}, p \in Wraps}
  \cup {OpImage(op, ab, <<200, 3>>, <<>>, 32) :
          op \in Opcodes, ab \in {<<7, 6>>, <<5, 7>>}}
  \cup {OpImage(op, <<0, 1>>, <<7, 2>>, pre, 32) : op \in Opcodes, pre \in Spoil}

\* The vector of line i is 80 + 8 * i; every handler is the same code h.
Vectors == [i \in 1..8 |-> 80 + 8 * (i - 1)]
RECURSIVE PlaceHandlers(_, _, _)
PlaceHandlers(mem, h, i) ==
  IF i > 8 THEN mem ELSE PlaceHandlers(Place(mem, Vectors[i], h), h, i + 1)

\* LDI R5,im; LDI R6,is; pre; NOP; NOP; HLT, the vector table and the handlers
IntImage(im, is, pre, h) ==
  PlaceHandlers(
    Place(Place(Blank, 0, <<LDI, IM, im, LDI, IS, is>> \o pre \o <<NOP, NOP, HLT>>),
          248, Vectors),
    h, 1)

Handlers == {<<IRET>>, <<NOP, IRET>>, <<INC, 0, IRET>>, <<HLT>>}
\* instructions before the interrupt that leave a register holding no byte,
\* or the stack pointer where the frame wraps or runs over the vector table
IntSetups ==
  {<<NOT, IM>>, <<NOT, IS>>, <<NOT, IM, NOT, IS>>, <<LDI, 0, 5, NOT, 0>>,
   <<LDI, 0, 7, LDI, 1, 2, DIV, 0, 1>>,
   <<LDI, SP, 4>>, <<LDI, SP, 253>>, <<LDI, SP, 250>>,
   <<LDI, SP, 5, NOT, SP>>, <<LDI, SP, 7, LDI, 1, 2, DIV, SP, 1>>}

IntImages ==
  {IntImage(im, is, <<>>, h) :
     im \in {0, 1, 130, 255}, is \in {0, 1, 130, 255}, h \in Handlers}
  \cup {IntImage(mi[1], mi[2], pre, h) :
          mi \in {<<1, 1>>, <<255, 255>>, <<130, 2>>}, pre \in IntSetups,
          h \in {<<IRET>>, <<NOP, IRET>>}}
  \* IS and IM both complemented from 255 before any line is pending
  \cup {IntImage(0, 255, <<NOT, IS, LDI, IM, 255, NOT, IM>>, h) :
          h \in {<<IRET>>, <<NOP, IRET>>}}

\* the bytes that fit between address at and the end of the memory
Fit(at, bytes) ==
  SubSeq(bytes, 1, IF 256 - at < Len(bytes) THEN 256 - at ELSE Len(bytes))

\* LDI Rr,x; pre; PUSH r; POP r; HLT
PushPopImage(r, x, pre) ==
  Place(Blank, 0, <<LDI, r, x>> \o pre \o <<PUSH, r, POP, r, HLT>>)

\* NOP; LDI R0,callee; pre; LDI R2,c; JMP R2;  at c: CALL r; HLT;  the callee
CallImage(c, r, pre, callee) ==
  Place(Place(Place(Blank, 0, <<NOP, LDI, 0, 64>> \o pre \o <<LDI, 2, c, JMP, 2>>),
              c, Fit(c, <<CALL, r, HLT>>)),
        64, callee)

StackSetups ==
  {<<>>, <<LDI, SP, 0>>, <<LDI, SP, 1>>, <<LDI, SP, 5, NOT, SP>>,
   <<LDI, SP, 7, LDI, 1, 2, DIV, SP, 1>>}
Callees == {<<RET>>, <<PUSH, 1, POP, 1, RET>>, <<INC, 0, RET>>}

StackImages ==
  {PushPopImage(r, x, pre) : r \in 0..7, x \in {0, 5, 255}, pre \in StackSetups}
  \cup {PushPopImage(r, 5, <<NOT, r>>) : r \in 0..7}
  \cup {CallImage(c, 0, pre, callee) :
          c \in {32} \cup Wraps, pre \in StackSetups, callee \in Callees}
  \cup {CallImage(32, 7, pre, <<RET>>) : pre \in StackSetups}
  \cup {Place(Blank, 0, <<LDI, 1, 5, NOT, 1, LD, 0, 1, CMP, 0, 2, CMP, 0, 0, HLT>>)}

\* IRET at 0 takes R6..R0, FL and PC from the cells 0xf4..0xfc of the image:
\* R0 = target, FL = fl, PC = p.  At p: j R0; HLT.  At target: HLT.
Jumps == {JEQ, JGE, JGT, JLE, JLT, JMP, JNE}
JumpImage(j, fl, target, p) ==
  Place(Place(Place(Place(Blank, 0, <<IRET>>),
                    244, <<0, 0, 0, 0, 0, 0, target, fl, p>>),
              target, <<HLT>>),
        p, Fit(p, <<j, 0, HLT>>))

\* LDI R0,x; LDI R1,y; CMP R0,R1; pre; j R0; HLT
CmpJumpImage(j, xy, pre) ==
  Place(Blank, 0, <<LDI, 0, xy[1], LDI, 1, xy[2], CMP, 0, 1>> \o pre \o <<j, 0, HLT>>)

JumpImages ==
  {JumpImage(j, fl, 64, p) :
     j \in Jumps, fl \in 0..7 \cup {8, 255}, p \in {32, 254}}
  \cup {CmpJumpImage(j, xy, pre) :
          j \in Jumps, xy \in {<<64, 64>>, <<64, 3>>, <<64, 70>>},
          pre \in {<<>>, <<NOT, 0>>}}

Images == OpImages

\* ------------------------------------------------------------ state machine
\* reg .. log are the fields of the CPU object (see above).  ticks and
\* raises count the calls of tick() and raiseInterrupt().  The others record
\* what has happened, for the properties to refer to:
\*   last   the latest step: its kind, the CPU before it (pre), the line
\*          raised (-1: none), and the instruction of the latest tick (cur)
\*          and of the tick before that (prev): opcode (-1: none ran), first
\*          operand byte, and the values that register and SP had when the
\*          handler was called
\*   entry  the latest interrupt entry: the line, the registers, PC and FL
\*          before it, and the stack pointer and the nine cells after it
\*   call   the latest CALL: the call site, SP before and after it, and
\*          the cell pushed
VARIABLES reg, PC, IR, FL, interruptsEnabled, ram, clock, timerInterrupt,
          peripherals, crashed, log, ticks, raises, last, entry, call

vars == <<reg, PC, IR, FL, interruptsEnabled, ram, clock, timerInterrupt,
          peripherals, crashed, log, ticks, raises, last, entry, call>>

\* the CPU object as a record, and the assignment of one to the variables
Cur ==
  [reg |-> reg, PC |-> PC, IR |-> IR, FL |-> FL,
   interruptsEnabled |-> interruptsEnabled, ram |-> ram, clock |-> clock,
   timerInterrupt |-> timerInterrupt, peripherals |-> peripherals,
   crashed |-> crashed, log |-> log]

Becomes(s) ==
  /\ reg' = s.reg
  /\ PC' = s.PC
  /\ IR' = s.IR
  /\ FL' = s.FL
  /\ interruptsEnabled' = s.interruptsEnabled
  /\ ram' = s.ram
  /\ clock' = s.clock
  /\ timerInterrupt' = s.timerInterrupt
  /\ peripherals' = s.peripherals
  /\ crashed' = s.crashed
  /\ log' = s.log

\* constructor(ram): registers 0, SP = 0xf4, interrupts enabled
constructor(image) ==
  [reg |-> [r \in 0..7 |-> IF r = SP THEN Num(244) ELSE Num(0)],
   PC |-> Num(0), IR |-> Num(0), FL |-> Num(0),
   interruptsEnabled |-> TRUE, ram |-> image, clock |-> "none",
   timerInterrupt |-> "none", peripherals |-> <<>>, crashed |-> FALSE,
   log |-> <<>>]

\* the operand bytes of the instruction at PC
operandA(s) == Nm(ramRead(s.ram, MaskAdd(s.PC, Num(1))))
operandB(s) == Nm(ramRead(s.ram, MaskAdd(s.PC, Num(2))))

NoInstr == [op |-> -1, a |-> 0, val |-> Num(0), sp |-> Num(0)]
\* the instruction the tick t executes
Instr(t) ==
  IF t.ran
    THEN [op |-> Nm(t.hnd.IR), a |-> operandA(t.mid),
          val |-> getReg(t.mid, operandA(t.mid)), sp |-> getReg(t.mid, SP)]
    ELSE NoInstr

\* the record of a step that is no tick
Other(kind, line) ==
  [kind |-> kind, pre |-> Cur, line |-> line, cur |-> last.cur, prev |-> last.prev]

NoEntry ==
  [line |-> -1, reg |-> <<>>, PC |-> Num(0), FL |-> Num(0), sp |-> 0, frame |-> <<>>]
NoCall == [site |-> -1, spBefore |-> Num(0), spAfter |-> Num(0), cell |-> 0]

InitFrom(images) ==
  \E image \in images :
    LET s == constructor(image)
    IN /\ reg = s.reg
       /\ PC = s.PC
       /\ IR = s.IR
       /\ FL = s.FL
       /\ interruptsEnabled = s.interruptsEnabled
       /\ ram = s.ram
       /\ clock = s.clock
       /\ timerInterrupt = s.timerInterrupt
       /\ peripherals = s.peripherals
       /\ crashed = s.crashed
       /\ log = s.log
       /\ ticks = 0
       /\ raises = 0
       /\ last = [kind |-> "init", pre |-> s, line |-> -1,
                  cur |-> NoInstr, prev |-> NoInstr]
       /\ entry = NoEntry
       /\ call = NoCall

Init == InitFrom(Images)

\* addPeripheral(p), here before the clock is started
AddPeripheral ==
  /\ clock = "none"
  /\ Len(peripherals) < MaxPeripherals
  /\ Becomes([Cur EXCEPT !.peripherals = Append(@, TRUE)])
  /\ last' = Other("addPeripheral", -1)
  /\ UNCHANGED <<ticks, raises, entry, call>>

\* startClock(): schedule the tick clock and the timer interrupt
StartClock ==
  /\ clock = "none"
  /\ Becomes([Cur EXCEPT !.clock = "set", !.timerInterrupt = "set"])
  /\ last' = Other("startClock", -1)
  /\ UNCHANGED <<ticks, raises, entry, call>>

\* raiseInterrupt assigning the mask where the code ORs it in
raiseInterruptAssign(s, n) == setReg(s, IS, Num(intMask(n)))
\* raiseInterrupt(n): this.reg[IS] |= intMask[n]
raiseInterrupt(s, n) ==
  setReg(s, IS, Num(BitOr(ToInt32(getReg(s, IS)), intMask(n))))

\* a peripheral (or any caller) raises line n between ticks
RaiseInterrupt(n) ==
  /\ ~crashed
  /\ raises < MaxRaises
  /\ Becomes(raiseInterrupt(Cur, n))
  /\ last' = Other("raiseInterrupt", n)
  /\ raises' = raises + 1
  /\ UNCHANGED <<ticks, entry, call>>

\* the timer interval's callback: raiseInterrupt(0)
TimerInterrupt ==
  /\ ~crashed
  /\ timerInterrupt = "set"
  /\ raises < MaxRaises
  /\ Becomes(raiseInterrupt(Cur, 0))
  /\ last' = Other("timerInterrupt", 0)
  /\ raises' = raises + 1
  /\ UNCHANGED <<ticks, entry, call>>

\* the nine cells from address sp upward (the frame of an interrupt entry)
Frame(mem, sp) == [k \in 1..9 |-> mem[(sp + k - 1) % 256]]

\* the clock interval's callback: tick()
Tick ==
  /\ ~crashed
  /\ clock = "set"
  /\ ticks < MaxTicks
  /\ \E t \in {tickSteps(Cur)} :
        /\ Becomes(t.post)
        /\ last' = [kind |-> "tick", pre |-> Cur, line |-> -1,
                    cur |-> Instr(t), prev |-> last.cur]
        /\ entry' = IF t.line = -1 THEN entry
                    ELSE [line |-> t.line,
                          reg |-> [r \in 0..6 |-> getReg(Cur, r)],
                          PC |-> PC, FL |-> FL,
                          sp |-> Nm(getReg(t.mid, SP)),
                          frame |-> Frame(t.mid.ram, Nm(getReg(t.mid, SP)))]
        /\ call' = IF t.ran /\ Nm(t.hnd.IR) = CALL
                     THEN [site |-> Nm(t.mid.PC),
                           spBefore |-> getReg(t.mid, SP),
                           spAfter |-> getReg(t.hnd, SP),
                           cell |-> ToUint8(RatAdd(t.mid.PC, Num(2)))]
                     ELSE call
  /\ ticks' = ticks + 1
  /\ UNCHANGED raises

Next ==
  \/ AddPeripheral
  \/ StartClock
  \/ \E n \in Lines : RaiseInterrupt(n)
  \/ TimerInterrupt
  \/ Tick

Spec == Init /\ [][Next]_vars
\* the same machine started from the other families of images
SpecInt == InitFrom(IntImages) /\ [][Next]_vars
SpecStack == InitFrom(StackImages) /\ [][Next]_vars
SpecJump == InitFrom(JumpImages) /\ [][Next]_vars

\* ---------------------------------------------------- the latest tick, again
\* When the latest step was a tick: the states it passed through
IsTick == last.kind = "tick"
T == tickSteps(last.pre)
Pre == last.pre
Mid == T.mid
Ran == IsTick /\ T.ran
Op == Nm(IR)

\* -------------------------------------------------------------- properties
\* bit i of a register value, as the code's & and >> see it
BitOf(v, i) == Bit(ToInt32(v), i)

\* C1: in every reachable state each of R0..R7 holds an integer in 0..255.
C1_RegistersAreBytes == \A r \in 0..7 : IsByte(reg[r])

\* C2: after a tick that executed an instruction, PC is what the handler left
\* if bit 4 of the opcode is set, and (PC at fetch + 1 + operand count) mod 256
\* if it is clear.
C2_PcAdvance ==
  Ran => IF Bit(Op, 4) = 1
           THEN PC = T.hnd.PC
           ELSE PC = Num((Nm(Mid.PC) + 1 + ((Op \div 64) % 4)) % 256)
\* an ADD at 254 executed, PC wrapped to 1
C2_Witness ==
  Ran /\ Op = ADD /\ Mid.PC = Num(254) /\ PC = Num(1)

\* C3: a tick that starts with interrupts enabled and IS & IM non-zero
\* services exactly the lowest line set in IS & IM and leaves the other bits
\* of IS; any other tick services no interrupt.
C3_LowestPendingServiced ==
  IsTick =>
    LET is == ToInt32(getReg(Pre, IS))
        pending == BitAnd(is, ToInt32(getReg(Pre, IM)))
    IN IF Pre.interruptsEnabled /\ pending # 0
         THEN \E i \in 0..7 :
                /\ Bit(pending, i) = 1
                /\ \A j \in 0..(i - 1) : Bit(pending, j) = 0
                /\ T.line = i
                /\ ~Mid.interruptsEnabled
                /\ getReg(Mid, IS) = Num(is - 2 ^ i)
         ELSE T.line = -1 /\ Mid = Pre

\* C4: when a tick services line i, before its fetch interrupts are disabled,
\* bit i of IS is 0, SP is 9 lower (mod 256), the nine cells from SP up hold
\* R6, R5, .., R0, FL and the PC of before, and PC is the byte at 0xF8 + i.
C4_InterruptFrame ==
  (IsTick /\ T.line # -1) =>
    LET i == T.line
        sp == Nm(getReg(Mid, SP))
        was == getReg(Pre, SP)
    IN /\ ~Mid.interruptsEnabled
       /\ BitOf(getReg(Mid, IS), i) = 0
       /\ was[2] = 1 /\ sp = (was[1] - 9) % 256
       /\ Num(Mid.ram[(sp + 8) % 256]) = Pre.PC
       /\ Num(Mid.ram[(sp + 7) % 256]) = Pre.FL
       /\ \A r \in 0..6 : Num(Mid.ram[(sp + 6 - r) % 256]) = getReg(Mid, r)
       /\ Mid.PC = Num(Mid.ram[248 + i])

\* C5 as stated: from interrupts enabled, bit 0 of IM and of IS set and
\* memory[0xF8] = 0x50, after one complete tick PC = 0x50, bit 0 of IS is
\* clear and interrupts are disabled.
C5_AfterOneTick ==
  (/\ IsTick
   /\ Pre.interruptsEnabled
   /\ BitOf(getReg(Pre, IM), 0) = 1
   /\ BitOf(getReg(Pre, IS), 0) = 1
   /\ Pre.ram[248] = 80)
  => (PC = Num(80) /\ BitOf(reg[IS], 0) = 0 /\ ~interruptsEnabled)
\* C5 amended: in the tick that services line i, at the instruction fetch PC
\* is the byte that cell 0xF8 + i holds after the nine pushes (the vector of
\* before, 0x50 in the scenario, unless a push went to that cell), bit i of
\* IS is clear and interrupts are disabled; the instruction fetched in that
\* same tick is the one at that address.
C5_VectorAtFetch ==
  IsTick => \A t \in {T} : t.line # -1 =>
    LET i == t.line
        sp == Nm(getReg(t.mid, SP))
    IN /\ t.mid.PC = Num(t.mid.ram[248 + i])
       /\ ((248 + i - sp) % 256 >= 9 => t.mid.PC = Num(Pre.ram[248 + i]))
       /\ BitOf(getReg(t.mid, IS), i) = 0
       /\ ~t.mid.interruptsEnabled
       /\ IR = Num(t.mid.ram[Nm(t.mid.PC)])
\* line 0 serviced with vector 0x50, the NOP there executed: PC is 0x51
C5_Witness ==
  /\ IsTick /\ T.line = 0
  /\ Pre.ram[248] = 80 /\ Mid.PC = Num(80)
  /\ Ran /\ Op = NOP /\ PC = Num(81)

\* the frame of the latest interrupt entry is where and as the entry left it
FrameIntact ==
  /\ entry.line # -1
  /\ getReg(Mid, SP) = Num(entry.sp)
  /\ Frame(Mid.ram, entry.sp) = entry.frame

\* C6 as stated: IRET over the intact frame leaves PC, FL and R0..R6 as they
\* were before the interrupt was serviced, and interrupts enabled.
C6_IretRestoresAll ==
  (Ran /\ Op = IRET /\ FrameIntact) =>
    /\ PC = entry.PC
    /\ FL = entry.FL
    /\ \A r \in 0..6 : reg[r] = entry.reg[r]
    /\ interruptsEnabled
\* C6 amended: IRET over the intact frame leaves PC, FL and R0..R5 holding
\* the bytes of their values before the interrupt (the value itself when it
\* was in 0..255, else its integer part mod 256) and R6 = IS the byte of its
\* value before with the bit of the serviced line cleared, and interrupts
\* enabled.
C6_IretRestores ==
  (IsTick /\ Op = IRET /\ Ran /\ FrameIntact) =>
    /\ PC = Num(ToUint8(entry.PC))
    /\ FL = Num(ToUint8(entry.FL))
    /\ \A r \in 0..5 : reg[r] = Num(ToUint8(entry.reg[r]))
    /\ reg[IS] = Num(Low8(BitAnd(ToInt32(entry.reg[IS]), BitNot(2 ^ entry.line))))
    /\ interruptsEnabled
\* an IRET in a tick after the entry's, the handler having changed R0
C6_Witness ==
  /\ Ran /\ Op = IRET /\ FrameIntact /\ T.line = -1
  /\ entry.line = 1
  /\ getReg(Mid, 0) # entry.reg[0]
  /\ reg[0] = entry.reg[0]
  /\ reg[IS] = Num(128)

\* C7: after a tick executes CMP regA regB on the values a and b, bit 0 of FL
\* is (a == b), bit 1 is (a > b), bit 2 is (a < b), exactly one of the three
\* is set, bits 3..7 of FL are as before and no register has changed.
C7_CmpFlags ==
  (Ran /\ Op = CMP /\ operandA(Mid) \in 0..7 /\ operandB(Mid) \in 0..7) =>
    LET a == getReg(Mid, operandA(Mid))
        b == getReg(Mid, operandB(Mid))
    IN /\ (BitOf(FL, FLAG_EQ) = 1) <=> JsEq(a, b)
       /\ (BitOf(FL, FLAG_GT) = 1) <=> JsGreater(a, b)
       /\ (BitOf(FL, FLAG_LT) = 1) <=> JsLess(a, b)
       /\ BitOf(FL, FLAG_EQ) + BitOf(FL, FLAG_GT) + BitOf(FL, FLAG_LT) = 1
       /\ ToInt32(FL) \div 8 = ToInt32(Mid.FL) \div 8
       /\ reg = Mid.reg

\* C8: PUSH r immediately followed by POP r, r in 0..7, leaves register r
\* holding the value it had before the PUSH and SP equal to its value before
\* the PUSH.
C8_PushPopRoundTrip ==
  (/\ Ran /\ T.line = -1
   /\ last.cur.op = POP /\ last.prev.op = PUSH
   /\ last.cur.a = last.prev.a /\ last.cur.a \in 0..7)
  => (reg[last.cur.a] = last.prev.val /\ reg[SP] = last.prev.sp)

\* the stack is as the latest CALL left it
Balanced ==
  /\ call.site # -1
  /\ getReg(Mid, SP) = call.spAfter
  /\ IsIndex(call.spAfter)
  /\ Mid.ram[Nm(call.spAfter)] = call.cell

\* C9: a RET executed with the stack as the CALL at address c left it leaves
\* PC = c + 2 (mod 256, the address after the CALL) and SP equal to its value
\* before the CALL; a CALL leaves PC equal to the value held in its register.
C9_CallRet ==
  /\ (Ran /\ Op = RET /\ Balanced) =>
       (PC = Num((call.site + 2) % 256) /\ reg[SP] = call.spBefore)
  /\ (Ran /\ Op = CALL) => PC = getReg(Cur, operandA(Mid))

\* C10: a conditional jump is taken iff its condition on FL holds (JEQ: EQ,
\* JNE: not EQ, JGT: GT, JGE: EQ or GT, JLT: LT, JLE: EQ or LT); taken, PC
\* after the tick is the value in the operand register, else (PC at fetch + 2)
\* mod 256; FL, the registers and the memory are unchanged either way.
C10_ConditionalJumps ==
  (Ran /\ Op \in {JEQ, JNE, JGT, JGE, JLT, JLE}) =>
    LET eq == BitOf(Mid.FL, 0) = 1
        gt == BitOf(Mid.FL, 1) = 1
        lt == BitOf(Mid.FL, 2) = 1
        cond == CASE Op = JEQ -> eq
                  [] Op = JNE -> ~eq
                  [] Op = JGT -> gt
                  [] Op = JGE -> eq \/ gt
                  [] Op = JLT -> lt
                  [] Op = JLE -> eq \/ lt
    IN /\ IF cond THEN PC = getReg(Mid, operandA(Mid))
                  ELSE PC = Num((Nm(Mid.PC) + 2) % 256)
       /\ FL = Mid.FL
       /\ reg = Mid.reg
       /\ ram = Mid.ram
\* a JGE taken on GT alone, and the flags it tested set by a CMP
C10_Witness ==
  /\ Ran /\ Op = JGE
  /\ BitOf(Mid.FL, 1) = 1 /\ BitOf(Mid.FL, 0) = 0
  /\ PC = getReg(Mid, operandA(Mid))
  /\ PC # Num((Nm(Mid.PC) + 2) % 256)

\* the engine has taken the shutdown path: both intervals cleared and every
\* peripheral stopped
ShutDown ==
  /\ clock = "cleared"
  /\ timerInterrupt = "cleared"
  /\ \A k \in DOMAIN peripherals : ~peripherals[k]

\* C11: a tick that fetches a byte with no handler takes the shutdown path and
\* leaves the registers, FL, PC and the memory as they were at the fetch (as
\* before the tick when the tick serviced no interrupt): PC is not advanced.
C11_InvalidOpcode ==
  (IsTick /\ IsIndex(Mid.PC) /\ Mid.ram[Nm(Mid.PC)] \notin branchTable) =>
    /\ ShutDown
    /\ IR = Num(Mid.ram[Nm(Mid.PC)])
    /\ reg = Mid.reg /\ FL = Mid.FL /\ PC = Mid.PC /\ ram = Mid.ram
    /\ T.line = -1 =>
         (reg = Pre.reg /\ FL = Pre.FL /\ PC = Pre.PC /\ ram = Pre.ram)
\* the byte 255 fetched at 32 with the clock running: the engine stopped there
C11_Witness ==
  /\ IsTick /\ Pre.clock = "set" /\ Mid.PC = Num(32) /\ Mid.ram[32] = 255
  /\ IR = Num(255) /\ PC = Num(32) /\ ShutDown

\* C12: DIV or MOD executed with the divisor register holding 0 takes the
\* shutdown path and leaves the destination register holding the value it had
\* before the tick.
C12_ZeroDivisorKeepsDest ==
  (Ran /\ Op \in {DIV, MOD} /\ IsZero(getReg(Mid, operandB(Mid)))) =>
    /\ ShutDown
    /\ getReg(Cur, operandA(Mid)) = getReg(Mid, operandA(Mid))

\* the latest step was a tick in which the engine stops: it fetched a byte with
\* no handler, HLT, or DIV or MOD with the divisor register holding 0
Stopping ==
  /\ IsTick
  /\ IsIndex(Mid.PC)
  /\ LET op == Mid.ram[Nm(Mid.PC)]
     IN \/ op \notin branchTable
        \/ op = HLT
        \/ op \in {DIV, MOD} /\ IsZero(getReg(Mid, operandB(Mid)))

\* C13: when the engine stops, at the return of that tick both intervals are
\* cleared and stop() has been called on every peripheral, the two
\* clearInterval calls having come before every stop(); and no tick and no
\* timer interrupt happens after the stop.
C13_StopCancelsAll ==
  /\ Stopping =>
       /\ ShutDown
       /\ \E i, j \in DOMAIN log :
            log[i] = "clearInterval(clock)" /\ log[j] = "clearInterval(timerInterrupt)"
       /\ Cardinality({k \in DOMAIN log : log[k] = "stop"}) = Len(peripherals)
       /\ \A i, j \in DOMAIN log : (log[i] # "stop" /\ log[j] = "stop") => i < j
  /\ (log # <<>> /\ last.kind \in {"tick", "timerInterrupt"}) => last.pre.log = <<>>
\* HLT stopped the engine with a peripheral attached, and a step came after
C13_Witness ==
  /\ log = <<"clearInterval(clock)", "clearInterval(timerInterrupt)", "stop">>
  /\ ShutDown /\ Len(peripherals) = 1
  /\ IR = Num(HLT)
  /\ last.kind = "raiseInterrupt" /\ last.pre.log = log

\* s2 is s with bit n of IS set and nothing else changed: IS is the integer
\* the code's | takes its old value for, plus 2^n when bit n of it was clear
OnlySetsBit(s, s2, n) ==
  /\ BitOf(s2.reg[IS], n) = 1
  /\ s2.reg[IS] = Num(ToInt32(s.reg[IS]) + (1 - BitOf(s.reg[IS], n)) * 2 ^ n)
  /\ [s2.reg EXCEPT ![IS] = s.reg[IS]] = s.reg
  /\ [s2 EXCEPT !.reg = s.reg] = s

\* C14: raiseInterrupt(n), n in 0..7, called in any state between ticks, sets
\* bit n of IS and changes nothing else; called again with bit n set it leaves
\* the state as it is.
C14_RaiseOnlySetsBit ==
  /\ last.kind \in {"raiseInterrupt", "timerInterrupt"} =>
       OnlySetsBit(last.pre, Cur, last.line)
  /\ \A s \in {Cur} : \A n \in 0..7 : \A s2 \in {raiseInterrupt(s, n)} :
       /\ OnlySetsBit(s, s2, n)
       /\ raiseInterrupt(s2, n) = s2
\* line 7 raised while IS held 1: IS holds 129
C14_Witness ==
  /\ last.kind = "raiseInterrupt" /\ last.line = 7
  /\ getReg(last.pre, IS) = Num(1) /\ reg[IS] = Num(129)
  /\ raiseInterrupt(Cur, 7) = Cur

C16_IntegerQuotient ==
  (/\ Ran /\ Op \in {DIV, MOD}
   /\ IsByte(getReg(Mid, operandA(Mid)))
   /\ IsByte(getReg(Mid, operandB(Mid)))
   /\ Nm(getReg(Mid, operandB(Mid))) >= 1)
  => LET a == Nm(getReg(Mid, operandA(Mid)))
         b == Nm(getReg(Mid, operandB(Mid)))
         d == getReg(Cur, operandA(Mid))
     IN IF Op = DIV THEN d = Num(a \div b) ELSE d = Num(a % b)

\* C17: interrupts are not nested: while interruptsEnabled is false a tick
\* performs no interrupt entry, whatever is pending in IS & IM, and only a
\* tick that executes IRET makes interruptsEnabled true again.
C17_NoNesting ==
  /\ IsTick => \A t \in {T} :
       /\ ~Pre.interruptsEnabled => (t.line = -1 /\ t.mid = Pre)
       /\ t.line # -1 => ~t.mid.interruptsEnabled
       /\ (~t.mid.interruptsEnabled /\ interruptsEnabled) => (t.ran /\ Op = IRET)
  /\ ~IsTick => interruptsEnabled = last.pre.interruptsEnabled
\* a tick inside a handler with an unmasked line pending: no entry, and the
\* IRET it executes enables interrupts again
C17_Witness ==
  /\ IsTick /\ entry.line # -1 /\ ~Pre.interruptsEnabled
  /\ BitAnd(ToInt32(getReg(Pre, IS)), ToInt32(getReg(Pre, IM))) # 0
  /\ T.line = -1 /\ Ran /\ Op = IRET /\ interruptsEnabled

\* C18: in every reachable state PC is an integer in 0..255.
C18_PcIsByte == IsByte(PC)

\* C19: a tick that executes INT reg at address p and services no interrupt
\* leaves PC = (p + 2) mod 256.
C19_IntMovesOn ==
  (Ran /\ Op = INT /\ T.line = -1) => PC = Num((Nm(Mid.PC) + 2) % 256)

\* C20: no raised interrupt is lost to IRET: an IRET over the intact frame of
\* the entry leaves set every bit of IS that was set when it was executed,
\* the bits raised since the entry among them.
C20_IretKeepsRaised ==
  (Ran /\ Op = IRET /\ FrameIntact) =>
    \A n \in 0..7 : BitOf(getReg(Mid, IS), n) = 1 => BitOf(reg[IS], n) = 1

====
